---------------------------- MODULE Spec2Model ----------------------------
(***************************************************************************)
(* The text normalizer of utils/text_preprocessing.py: preprocess_text     *)
(* and its passes, and the callers of                                      *)
(* evaluate_text_preprocessing.py.                                         *)
(*                                                                         *)
(* A Python str is a sequence of characters.  A printable ASCII character  *)
(* is the one-character string of itself (but "<backslash>", "<backtick>"); *)
(* any other character is a token in angle brackets: "<TAB>", "<BEL>",     *)
(* "<e-acute>", "<rocket>".                                                *)
(***************************************************************************)
EXTENDS Integers, Sequences, FiniteSets

(***************************************************************************)
(* Characters and the character classes of Python's re on str patterns.    *)
(***************************************************************************)
Digits == {"0", "1", "2", "3", "4", "5", "6", "7", "8", "9"}

LowerLetters ==
    {"a", "b", "c", "d", "e", "f", "g", "h", "i", "j", "k", "l", "m",
     "n", "o", "p", "q", "r", "s", "t", "u", "v", "w", "x", "y", "z"}

UpperLetters ==
    {"A", "B", "C", "D", "E", "F", "G", "H", "I", "J", "K", "L", "M",
     "N", "O", "P", "Q", "R", "S", "T", "U", "V", "W", "X", "Y", "Z"}

Punctuation ==
    {"!", "\"", "#", "$", "%", "&", "'", "(", ")", "*", "+", ",", "-", ".",
     "/", ":", ";", "<", "=", ">", "?", "@", "[", "<backslash>", "]", "^", "_", "<backtick>",
     "{", "|", "}", "~"}

\* str.isspace() on the ASCII range, which is also what \s matches there.
AsciiWhitespace ==
    {" ", "<TAB>", "<LF>", "<VT>", "<FF>", "<CR>", "<FS>", "<GS>", "<RS>", "<US>"}

AsciiControl ==
    {"<NUL>", "<SOH>", "<STX>", "<ETX>", "<EOT>", "<ENQ>", "<ACK>", "<BEL>",
     "<BS>", "<TAB>", "<LF>", "<VT>", "<FF>", "<CR>", "<SO>", "<SI>", "<DLE>",
     "<DC1>", "<DC2>", "<DC3>", "<DC4>", "<NAK>", "<SYN>", "<ETB>", "<CAN>",
     "<EM>", "<SUB>", "<ESC>", "<FS>", "<GS>", "<RS>", "<US>", "<DEL>"}

\* U+0020 .. U+007E
AsciiPrintable == {" "} \cup Digits \cup LowerLetters \cup UpperLetters \cup Punctuation

\* U+0000 .. U+007F
Ascii == AsciiPrintable \cup AsciiControl

ToLower ==
    [c \in UpperLetters |->
        CASE c = "A" -> "a" [] c = "B" -> "b" [] c = "C" -> "c" [] c = "D" -> "d"
          [] c = "E" -> "e" [] c = "F" -> "f" [] c = "G" -> "g" [] c = "H" -> "h"
          [] c = "I" -> "i" [] c = "J" -> "j" [] c = "K" -> "k" [] c = "L" -> "l"
          [] c = "M" -> "m" [] c = "N" -> "n" [] c = "O" -> "o" [] c = "P" -> "p"
          [] c = "Q" -> "q" [] c = "R" -> "r" [] c = "S" -> "s" [] c = "T" -> "t"
          [] c = "U" -> "u" [] c = "V" -> "v" [] c = "W" -> "w" [] c = "X" -> "x"
          [] c = "Y" -> "y" [] c = "Z" -> "z"]

\* Case folding of re.IGNORECASE on ASCII text.
lower(c) == IF c \in UpperLetters THEN ToLower[c] ELSE c

\* \w on ASCII text.
isWord(c) == c \in LowerLetters \cup UpperLetters \cup Digits \cup {"_"}

\* The character at position i, or "" (no character) outside the string.
At(text, i) == IF i >= 1 /\ i <= Len(text) THEN text[i] ELSE ""

\* \b holds between positions i-1 and i.
WordBoundary(text, i) == isWord(At(text, i - 1)) # isWord(At(text, i))

(***************************************************************************)
(* The patterns: for each, the length of the match that starts at position *)
(* i (0: none; no pattern here matches the empty string) and what re.sub   *)
(* puts in place of the match text[i..i+n-1].                              *)
(***************************************************************************)

\* r"\b%s\.?" % abbr, re.IGNORECASE
AbbrMatchLen(abbr, text, i) ==
    LET k == Len(abbr)
    IN  IF /\ WordBoundary(text, i)
           /\ i + k - 1 <= Len(text)
           /\ \A j \in 1..k : lower(text[i + j - 1]) = abbr[j]
        THEN IF At(text, i + k) = "." THEN k + 1 ELSE k
        ELSE 0

RECURSIVE RunLen(_, _, _)
\* The length of the maximal run of characters of class S starting at i.
RunLen(S, text, i) ==
    IF i <= Len(text) /\ text[i] \in S THEN 1 + RunLen(S, text, i + 1) ELSE 0

\* The pattern r" +" in place of r"\s+".
WhitespaceMatchLenSpacesOnly(text, i) == RunLen({" "}, text, i)

\* _whitespace_re = r"\s+"
WhitespaceMatchLen(text, i) == RunLen(AsciiWhitespace, text, i)

\* r"(\d),(\d)"
NumbersMatchLen(text, i) ==
    IF At(text, i) \in Digits /\ At(text, i + 1) = "," /\ At(text, i + 2) \in Digits
    THEN 3 ELSE 0

RECURSIVE GroupsLen(_, _)
\* (,\d{3})* starting at i
GroupsLen(text, i) ==
    IF At(text, i) = "," /\ \A j \in 1..3 : At(text, i + j) \in Digits
    THEN 4 + GroupsLen(text, i + 4) ELSE 0

\* (\.\d+)? starting at i
FractionLen(text, i) ==
    IF At(text, i) = "." /\ At(text, i + 1) \in Digits
    THEN 1 + RunLen(Digits, text, i + 1) ELSE 0

\* r"\$(\d{1,3}(,\d{3})*(\.\d+)?)": every quantifier is greedy and nothing
\* follows that could make the match back off.
CurrencyMatchLen(text, i) ==
    LET run == RunLen(Digits, text, i + 1)
        d == IF run > 3 THEN 3 ELSE run
        g == GroupsLen(text, i + 1 + d)
        f == FractionLen(text, i + 1 + d + g)
    IN  IF At(text, i) = "$" /\ d >= 1 THEN 1 + d + g + f ELSE 0

\* str.replace(old, "") for a one-character old
Remove(old, text) == SelectSeq(text, LAMBDA c : c # old)

\* lambda m: m.group(1).replace(",", "")
CurrencyRepl(text, i, n) == Remove(",", SubSeq(text, i + 1, i + n - 1))

(***************************************************************************)
(* The dates: datetime.strptime(s, "%m/%d/%y") and                         *)
(* date.strftime("%B %d, %Y")                                              *)
(***************************************************************************)
DigitVal ==
    [c \in Digits |->
        CASE c = "0" -> 0 [] c = "1" -> 1 [] c = "2" -> 2 [] c = "3" -> 3
          [] c = "4" -> 4 [] c = "5" -> 5 [] c = "6" -> 6 [] c = "7" -> 7
          [] c = "8" -> 8 [] c = "9" -> 9]

DigitChar(n) == CHOOSE c \in Digits : DigitVal[c] = n

TwoDigits(text, i) == 10 * DigitVal[text[i]] + DigitVal[text[i + 1]]

\* The full month names of the C locale (%B).
MonthName ==
    << <<"J","a","n","u","a","r","y">>,
       <<"F","e","b","r","u","a","r","y">>,
       <<"M","a","r","c","h">>,
       <<"A","p","r","i","l">>,
       <<"M","a","y">>,
       <<"J","u","n","e">>,
       <<"J","u","l","y">>,
       <<"A","u","g","u","s","t">>,
       <<"S","e","p","t","e","m","b","e","r">>,
       <<"O","c","t","o","b","e","r">>,
       <<"N","o","v","e","m","b","e","r">>,
       <<"D","e","c","e","m","b","e","r">> >>

IsLeap(year) == year % 4 = 0 /\ (year % 100 # 0 \/ year % 400 = 0)

DaysInMonth(month, year) ==
    IF month = 2 THEN (IF IsLeap(year) THEN 29 ELSE 28)
    ELSE IF month \in {4, 6, 9, 11} THEN 30 ELSE 31

\* r"\b\d{2}[-/]\d{2}[-/]\d{2}\b"
DateMatchLen(text, i) ==
    IF /\ i + 7 <= Len(text)
       /\ WordBoundary(text, i)
       /\ \A j \in {0, 1, 3, 4, 6, 7} : text[i + j] \in Digits
       /\ text[i + 2] \in {"-", "/"}
       /\ text[i + 5] \in {"-", "/"}
       /\ WordBoundary(text, i + 8)
    THEN 8 ELSE 0

\* datetime.strptime(text[i..i+7], "%m/%d/%y") of eight characters
\* dd?dd?dd: the two separators must be the "/" of the format, %m is
\* 01..12, %d is 01..31 and a day of that month, %y is 00..68 -> 20yy and
\* 69..99 -> 19yy.  ok is FALSE where strptime raises ValueError.
strptime(text, i) ==
    LET month == TwoDigits(text, i)
        day == TwoDigits(text, i + 3)
        yy == TwoDigits(text, i + 6)
        year == IF yy <= 68 THEN 2000 + yy ELSE 1900 + yy
    IN  [ok |-> /\ text[i + 2] = "/"
                /\ text[i + 5] = "/"
                /\ month \in 1..12
                /\ day \in 1..31
                /\ day <= DaysInMonth(month, year),
         month |-> month, day |-> day, year |-> year]

\* date.strftime("%B %d, %Y")
strftime(date) ==
    MonthName[date.month] \o <<" ">>
      \o <<DigitChar(date.day \div 10), DigitChar(date.day % 10)>>
      \o <<",", " ">>
      \o <<DigitChar(date.year \div 1000), DigitChar((date.year \div 100) % 10),
           DigitChar((date.year \div 10) % 10), DigitChar(date.year % 10)>>

\* replace_date(match), for a match on which strptime does not raise
replace_date(text, i, n) == strftime(strptime(text, i))

(***************************************************************************)
(* re.sub: the leftmost non-overlapping matches of a pattern, found        *)
(* scanning left to right on the original string, each replaced.           *)
(***************************************************************************)

\* The compiled patterns.
AbbrPattern(abbr, full) == [re |-> "abbreviation", abbr |-> abbr, full |-> full]
WhitespacePattern == [re |-> "whitespace"]
NumbersPattern == [re |-> "numbers"]
CurrencyPattern == [re |-> "currency"]
DatePattern == [re |-> "date"]
\* str.replace(old, new) of one character by another
CharPattern(old, new) == [re |-> "char", old |-> old, new |-> new]

MatchLen(pattern, text, i) ==
    CASE pattern.re = "abbreviation" -> AbbrMatchLen(pattern.abbr, text, i)
      [] pattern.re = "whitespace" -> WhitespaceMatchLen(text, i)
      [] pattern.re = "numbers" -> NumbersMatchLen(text, i)
      [] pattern.re = "currency" -> CurrencyMatchLen(text, i)
      [] pattern.re = "date" -> DateMatchLen(text, i)
      [] pattern.re = "char" -> IF text[i] = pattern.old THEN 1 ELSE 0

Repl(pattern, text, i, n) ==
    CASE pattern.re = "abbreviation" -> pattern.full
      [] pattern.re = "whitespace" -> <<" ">>
      [] pattern.re = "numbers" -> <<text[i], text[i + 2]>>
      [] pattern.re = "currency" -> CurrencyRepl(text, i, n)
      [] pattern.re = "date" -> replace_date(text, i, n)
      [] pattern.re = "char" -> <<pattern.new>>

\* The start of the leftmost match at or after position i, or 0.
search(pattern, text, i) ==
    LET starts == {j \in i..Len(text) : MatchLen(pattern, text, j) > 0}
    IN  IF starts = {} THEN 0
        ELSE CHOOSE j \in starts : \A k \in starts : j <= k

RECURSIVE finditer(_, _, _)
\* The starts of the matches re.sub replaces, from position i on.
finditer(pattern, text, i) ==
    LET j == search(pattern, text, i)
    IN  IF j = 0 THEN <<>>
        ELSE <<j>> \o finditer(pattern, text, j + MatchLen(pattern, text, j))

RECURSIVE re_sub(_, _, _)
re_sub(pattern, text, i) ==
    LET j == search(pattern, text, i)
        n == MatchLen(pattern, text, j)
    IN  IF j = 0 THEN SubSeq(text, i, Len(text))
        ELSE SubSeq(text, i, j - 1) \o Repl(pattern, text, j, n)
               \o re_sub(pattern, text, j + n)

(***************************************************************************)
(* The passes.                                                             *)
(***************************************************************************)

_abbreviations ==
    << AbbrPattern(<<"m","r","s">>, <<"m","i","s","s","e","s">>),
       AbbrPattern(<<"m","r">>, <<"m","i","s","t","e","r">>),
       AbbrPattern(<<"d","r">>, <<"d","o","c","t","o","r">>),
       AbbrPattern(<<"s","t">>, <<"s","t","r","e","e","t">>),
       AbbrPattern(<<"r","d">>, <<"r","o","a","d">>),
       AbbrPattern(<<"c","o">>, <<"c","o","m","p","a","n","y">>),
       AbbrPattern(<<"j","r">>, <<"j","u","n","i","o","r">>),
       AbbrPattern(<<"m","a","j">>, <<"m","a","j","o","r">>),
       AbbrPattern(<<"g","e","n">>, <<"g","e","n","e","r","a","l">>),
       AbbrPattern(<<"d","r","s">>, <<"d","o","c","t","o","r","s">>),
       AbbrPattern(<<"r","e","v">>, <<"r","e","v","e","r","e","n","d">>),
       AbbrPattern(<<"l","t">>, <<"l","i","e","u","t","e","n","a","n","t">>),
       AbbrPattern(<<"h","o","n">>, <<"h","o","n","o","r","a","b","l","e">>),
       AbbrPattern(<<"s","g","t">>, <<"s","e","r","g","e","a","n","t">>),
       AbbrPattern(<<"c","a","p","t">>, <<"c","a","p","t","a","i","n">>),
       AbbrPattern(<<"e","s","q">>, <<"e","s","q","u","i","r","e">>),
       AbbrPattern(<<"l","t","d">>, <<"l","i","m","i","t","e","d">>),
       AbbrPattern(<<"c","o","l">>, <<"c","o","l","o","n","e","l">>),
       AbbrPattern(<<"f","t">>, <<"f","o","r","t">>) >>

\* The table as a generator expression: iterating it uses it up.
IterTableOnce(tbl) == [items |-> tbl, rest |-> <<>>]

\* Iterating a list yields its items and leaves the list as it was.
IterTable(tbl) == [items |-> tbl, rest |-> tbl]

RECURSIVE ExpandFrom(_, _, _)
\* The rest of the loop over the table, from its k-th entry on.
ExpandFrom(items, k, text) ==
    IF k > Len(items) THEN text
    ELSE ExpandFrom(items, k + 1, re_sub(items[k], text, 1))

expand_abbreviations(tbl, text) == ExpandFrom(IterTable(tbl).items, 1, text)

collapse_whitespace(text) == re_sub(WhitespacePattern, text, 1)

\* unidecode's transliteration of one character: an ASCII character is
\* itself, any other character its table entry (possibly empty).
unidecode_char(c) ==
    IF c \in Ascii THEN <<c>>
    ELSE CASE c = "<e-acute>" -> <<"e">>
           [] c = "<A-ring>" -> <<"A">>
           [] c = "<o-umlaut>" -> <<"o">>
           [] c = "<sharp-s>" -> <<"s", "s">>
           [] c = "<nbsp>" -> <<" ">>
           [] c = "<ldquo>" -> <<"\"">>
           [] c = "<rdquo>" -> <<"\"">>
           [] c = "<lsquo>" -> <<"'">>
           [] c = "<rsquo>" -> <<"'">>
           [] c = "<rocket>" -> <<>>
           [] OTHER -> <<>>

RECURSIVE unidecode(_)
\* The transliterations of the characters, concatenated in order.
unidecode(text) ==
    IF text = <<>> THEN <<>>
    ELSE IF Len(text) = 1 THEN unidecode_char(text[1])
    ELSE LET half == Len(text) \div 2
         IN  unidecode(SubSeq(text, 1, half)) \o unidecode(SubSeq(text, half + 1, Len(text)))

\* The text handed on as it came, not transliterated.
convert_to_ascii_skipped(text) == text

convert_to_ascii(text) == unidecode(text)

normalize_numbers(text) == re_sub(NumbersPattern, text, 1)

normalize_currency(text) == re_sub(CurrencyPattern, text, 1)

\* The call outcomes: a returned str, or the ValueError that strptime raised.
Returned(value) == [kind |-> "str", value |-> value]
Raised == [kind |-> "ValueError", value |-> <<>>]

\* re.sub calls replace_date on each match in turn; the first match that
\* strptime rejects raises out of re.sub and nothing is returned.
normalize_dates(text) ==
    LET matches == finditer(DatePattern, text, 1)
    IN  IF \E k \in 1..Len(matches) : ~strptime(text, matches[k]).ok
        THEN Raised
        ELSE Returned(re_sub(DatePattern, text, 1))

normalize_quotes(text) ==
    re_sub(CharPattern("<rsquo>", "'"),
        re_sub(CharPattern("<lsquo>", "'"),
            re_sub(CharPattern("<rdquo>", "\""),
                re_sub(CharPattern("<ldquo>", "\""), text, 1), 1), 1), 1)

\* Every character the passes and str.strip treat as whitespace.
Whitespace == AsciiWhitespace \cup {"<nbsp>"}

RECURSIVE lstrip(_)
lstrip(text) ==
    IF text # <<>> /\ Head(text) \in Whitespace THEN lstrip(Tail(text)) ELSE text

RECURSIVE rstrip(_)
rstrip(text) ==
    IF text # <<>> /\ text[Len(text)] \in Whitespace
    THEN rstrip(SubSeq(text, 1, Len(text) - 1)) ELSE text

strip(text) == rstrip(lstrip(text))

(***************************************************************************)
(* The inputs.                                                             *)
(***************************************************************************)
\* ORIGINALS of evaluate_text_preprocessing.py
ORIGINALS ==
    << <<"D","r","."," ","J","o","s","<e-acute>"," ","b","o","u","g","h","t",
         " ","3",",","4","7","5"," ","s","h","a","r","e","s"," ","o","f"," ",
         "<A-ring>","n","g","s","t","r","<o-umlaut>","m","-","T","e","c","h",
         " ","f","o","r"," ","$","1",",","2","9","9",".","5","0"," ","e","a",
         "c","h"," ","o","n"," ","1","2","/","0","6","/","2","5","."," ",
         "<rocket>">>,
       <<"<ldquo>","M","r","."," ","O","<rsquo>","N","e","i","l","l",
         "<rdquo>"," ","l","i","v","e","s"," ","a","t"," ","1","2","3"," ",
         "S","t","."," ","C","a","t","h","e","r","i","n","e"," ","R","d",".">>,
       <<"H","e"," ","s","a","i","d",","," ","<ldquo>","T","h","a","t",
         "<rsquo>","s"," ","$","3",",","0","0","3",","," ","o","k","a","y",
         "?","<rdquo>">>,
       <<"O","n"," ","0","1","/","0","2","/","2","3",","," ","D","r","."," ",
         "S","m","i","t","h"," ","a","n","d"," ","D","r","."," ","J","o","n",
         "e","s"," ","a","r","r","i","v","e","d",".">>,
       <<"T","h","e"," ","t","o","t","a","l"," ","i","s"," ","$","1","2",",",
         "0","0","0"," ","a","n","d"," ","t","h","e"," ","d","a","t","e"," ",
         "i","s"," ","0","7","/","0","4","/","2","2",".">> >>

MaxPieces == 2

Pieces ==
    { <<"S","t",".">>, <<"S","t","r","e","e","t">>,
      <<"1",",","2",",","3">>, <<"$","3",",","0","0","3">>,
      <<"1","2","/","0","6","/","2","5">>, <<"1","2","-","0","6","-","2","5">>,
      <<"1","3","/","4","0","/","9","9">>, <<"0","2","/","2","9","/","2","3">>,
      <<" ">>, <<"<TAB>">>, <<"<nbsp>">>, <<"<BEL>">>,
      <<"a", " ", "<TAB>", "<LF>", " ", "b">>,
      <<"<e-acute>">>, <<"<rocket>">>, <<"<rsquo>">>, <<"x">> }

RECURSIVE Concats(_)
\* The concatenations of at most n pieces.
Concats(n) ==
    IF n = 0 THEN {<<>>}
    ELSE LET shorter == Concats(n - 1)
         IN  shorter \cup {s \o p : s \in shorter, p \in Pieces}

ToUpper(c) == IF c \in LowerLetters THEN CHOOSE u \in UpperLetters : ToLower[u] = c ELSE c

\* An abbreviation in lower case, capitalised or in upper case.
Cased(style, abbr) ==
    [k \in 1..Len(abbr) |->
        IF style = "upper" \/ (style = "capitalised" /\ k = 1)
        THEN ToUpper(abbr[k]) ELSE abbr[k]]

\* Every abbreviation of the table as the only token of the input, in
\* three letter cases, with and without the period.
AbbrInputs ==
    {Cased(style, _abbreviations[k].abbr) \o dot :
        k \in 1..Len(_abbreviations),
        style \in {"lower", "capitalised", "upper"},
        dot \in {<<>>, <<".">>}}

Inputs == Concats(MaxPieces) \cup AbbrInputs \cup {ORIGINALS[k] : k \in 1..Len(ORIGINALS)}

\* The inputs of the repeated and interleaved calls.
CallInputs == {ORIGINALS[3], <<"S","t",".">>, <<"1","3","/","4","0","/","9",
                                                "9">>}

(***************************************************************************)
(* The state: the module-level table, and per caller the argument, the     *)
(* local variable text, the statement of preprocess_text about to run and  *)
(* what the call gave back.  previous is what the call gave back whose     *)
(* output the caller has fed in again; outcomes is what the finished calls *)
(* on each input gave back.                                                *)
(***************************************************************************)
VARIABLES abbreviations, input, text, pc, result, previous, outcomes

vars == <<abbreviations, input, text, pc, result, previous, outcomes>>

Callers == {"t1", "t2"}

NoResult == [kind |-> "none", value |-> <<>>]

\* One call of preprocess_text(x), about to run its first statement.
Init ==
    /\ abbreviations = _abbreviations
    /\ \E x \in Inputs :
          /\ input = [c \in Callers |-> IF c = "t1" THEN x ELSE <<>>]
          /\ text = [c \in Callers |-> IF c = "t1" THEN x ELSE <<>>]
    /\ pc = [c \in Callers |-> IF c = "t1" THEN "convert_to_ascii" ELSE "idle"]
    /\ result = [c \in Callers |-> NoResult]
    /\ previous = [c \in Callers |-> NoResult]
    /\ outcomes = [x \in CallInputs |-> {}]

\* No call yet.
InitCalls ==
    /\ abbreviations = _abbreviations
    /\ input = [c \in Callers |-> <<>>]
    /\ text = [c \in Callers |-> <<>>]
    /\ pc = [c \in Callers |-> "idle"]
    /\ result = [c \in Callers |-> NoResult]
    /\ previous = [c \in Callers |-> NoResult]
    /\ outcomes = [x \in CallInputs |-> {}]

\* A statement text = f(text) of preprocess_text.
Pass(c, here, value, next) ==
    /\ pc[c] = here
    /\ text' = [text EXCEPT ![c] = value]
    /\ pc' = [pc EXCEPT ![c] = next]
    /\ UNCHANGED <<input, result, previous, outcomes>>

ConvertToAscii(c) ==
    /\ Pass(c, "convert_to_ascii", convert_to_ascii(text[c]), "expand_abbreviations")
    /\ UNCHANGED abbreviations

ExpandAbbreviations(c) ==
    /\ Pass(c, "expand_abbreviations", expand_abbreviations(abbreviations, text[c]),
            "normalize_numbers")
    /\ abbreviations' = IterTable(abbreviations).rest

NormalizeNumbers(c) ==
    /\ Pass(c, "normalize_numbers", normalize_numbers(text[c]), "normalize_currency")
    /\ UNCHANGED abbreviations

NormalizeCurrency(c) ==
    /\ Pass(c, "normalize_currency", normalize_currency(text[c]), "normalize_dates")
    /\ UNCHANGED abbreviations

NormalizeDates(c) ==
    /\ normalize_dates(text[c]).kind = "str"
    /\ Pass(c, "normalize_dates", normalize_dates(text[c]).value, "normalize_quotes")
    /\ UNCHANGED abbreviations

\* The ValueError leaves preprocess_text, which catches nothing: the frame
\* and its text are gone and the caller gets the exception.
NormalizeDatesRaises(c) ==
    /\ pc[c] = "normalize_dates"
    /\ normalize_dates(text[c]).kind = "ValueError"
    /\ pc' = [pc EXCEPT ![c] = "raised"]
    /\ text' = [text EXCEPT ![c] = <<>>]
    /\ result' = [result EXCEPT ![c] = Raised]
    /\ UNCHANGED <<abbreviations, input, previous, outcomes>>

NormalizeQuotes(c) ==
    /\ Pass(c, "normalize_quotes", normalize_quotes(text[c]), "collapse_whitespace")
    /\ UNCHANGED abbreviations

CollapseWhitespace(c) ==
    /\ Pass(c, "collapse_whitespace", collapse_whitespace(text[c]), "strip")
    /\ UNCHANGED abbreviations

\* return text.strip()
ReturnStrip(c) ==
    /\ pc[c] = "strip"
    /\ result' = [result EXCEPT ![c] = Returned(strip(text[c]))]
    /\ pc' = [pc EXCEPT ![c] = "returned"]
    /\ text' = [text EXCEPT ![c] = <<>>]
    /\ UNCHANGED <<abbreviations, input, previous, outcomes>>

\* preprocess_text, statement by statement.
Step(c) ==
    \/ ConvertToAscii(c)
    \/ ExpandAbbreviations(c)
    \/ NormalizeNumbers(c)
    \/ NormalizeCurrency(c)
    \/ NormalizeDates(c)
    \/ NormalizeDatesRaises(c)
    \/ NormalizeQuotes(c)
    \/ CollapseWhitespace(c)
    \/ ReturnStrip(c)

\* The caller normalizes the string it got back: preprocess_text(out).
Renormalize(c) ==
    /\ pc[c] = "returned"
    /\ previous[c] = NoResult
    /\ previous' = [previous EXCEPT ![c] = result[c]]
    /\ input' = [input EXCEPT ![c] = result[c].value]
    /\ text' = [text EXCEPT ![c] = result[c].value]
    /\ result' = [result EXCEPT ![c] = NoResult]
    /\ pc' = [pc EXCEPT ![c] = "convert_to_ascii"]
    /\ UNCHANGED <<abbreviations, outcomes>>

\* A caller calls preprocess_text(x).
Call(c) ==
    /\ pc[c] = "idle"
    /\ \E x \in CallInputs :
          /\ input' = [input EXCEPT ![c] = x]
          /\ text' = [text EXCEPT ![c] = x]
    /\ pc' = [pc EXCEPT ![c] = "convert_to_ascii"]
    /\ UNCHANGED <<abbreviations, result, previous, outcomes>>

\* The caller takes what the call gave back.
Finish(c) ==
    /\ pc[c] \in {"returned", "raised"}
    /\ outcomes' = [outcomes EXCEPT ![input[c]] = @ \cup {result[c]}]
    /\ pc' = [pc EXCEPT ![c] = "idle"]
    /\ input' = [input EXCEPT ![c] = <<>>]
    /\ result' = [result EXCEPT ![c] = NoResult]
    /\ UNCHANGED <<abbreviations, text, previous>>

\* One call, and one more on what it returned.
Next == Step("t1") \/ Renormalize("t1")

Spec == Init /\ [][Next]_vars

\* Callers calling again and again, their calls interleaved.
NextCalls == \E c \in Callers : Call(c) \/ Step(c) \/ Finish(c)

SpecCalls == InitCalls /\ [][NextCalls]_vars

(***************************************************************************)
(* What the claims speak of.                                               *)
(***************************************************************************)
Chars(s) == {s[k] : k \in 1..Len(s)}

Contains(sub, s) ==
    \E i \in 1..(Len(s) - Len(sub) + 1) : SubSeq(s, i, i + Len(sub) - 1) = sub

\* What the passes after ASCII folding see of the input.
Folded(c) == convert_to_ascii(input[c])

\* An abbreviation (and its optional period) that is a whole word of s.
HasWholeWordAbbr(s) ==
    \E k \in 1..Len(_abbreviations), i \in 1..Len(s) :
        /\ AbbrMatchLen(_abbreviations[k].abbr, s, i) > 0
        /\ ~isWord(At(s, i + Len(_abbreviations[k].abbr)))

\* Month, day and two-digit year of the token at i name a day of the
\* calendar, whichever the delimiters.
IsCalendarDate(s, i) ==
    LET month == TwoDigits(s, i)
        day == TwoDigits(s, i + 3)
    IN  /\ month \in 1..12
        /\ day \in 1..31
        /\ day <= DaysInMonth(month, strptime(s, i).year)

DateTokens(s) == {i \in 1..Len(s) : DateMatchLen(s, i) > 0}

HasInvalidDateToken(s) == \E i \in DateTokens(s) : ~IsCalendarDate(s, i)

DigitCommaDigit(s) ==
    \E i \in 1..(Len(s) - 2) : s[i] \in Digits /\ s[i + 1] = "," /\ s[i + 2] \in Digits

(***************************************************************************)
(* C1: preprocess_text is idempotent: where preprocess_text(x) returns,    *)
(* preprocess_text of what it returned returns too, and the same string.   *)
(***************************************************************************)
C1_Idempotent ==
    \A c \in Callers :
        previous[c] # NoResult =>
            /\ pc[c] # "raised"
            /\ pc[c] = "returned" => result[c] = previous[c]

(***************************************************************************)
(* C2: expand_abbreviations replaces whole-word occurrences only: a text   *)
(* in which no abbreviation stands as a whole word (a longer word may      *)
(* begin with its letters) comes out of the pass unchanged.                *)
(***************************************************************************)
C2_WholeWordOnly ==
    \A c \in Callers :
        pc[c] = "normalize_numbers" /\ ~HasWholeWordAbbr(Folded(c)) =>
            text[c] = Folded(c)

(***************************************************************************)
(* C3: an input whose only token is an abbreviation of the table, in any   *)
(* letter case, with or without the period, expands to exactly the full    *)
(* form of that entry; no earlier entry gets in the way.                   *)
(***************************************************************************)
C3_EachEntryExpands ==
    \A c \in Callers, k \in 1..Len(_abbreviations) :
        \A style \in {"lower", "capitalised", "upper"}, dot \in {<<>>, <<".">>} :
            /\ pc[c] = "normalize_numbers"
            /\ input[c] = Cased(style, _abbreviations[k].abbr) \o dot
            => text[c] = _abbreviations[k].full

(***************************************************************************)
(* C4: every $-amount of the input is in the output with its $, its digits *)
(* and its decimal point, less only the thousands-separator commas.        *)
(***************************************************************************)
C4_CurrencyKeepsDollar ==
    \A c \in Callers :
        pc[c] = "returned" =>
            \A i \in 1..Len(input[c]) :
                CurrencyMatchLen(input[c], i) > 0 =>
                    Contains(Remove(",", SubSeq(input[c], i,
                                 i + CurrencyMatchLen(input[c], i) - 1)),
                             result[c].value)

(***************************************************************************)
(* C5: normalize_dates rewrites every date token that names a calendar     *)
(* day as Month DD, YYYY, with slashes or with dashes alike, and does not  *)
(* raise on either.                                                        *)
(***************************************************************************)
C5_EitherDelimiter ==
    [][\A c \in Callers :
          /\ pc[c] = "normalize_dates"
          /\ pc'[c] # "normalize_dates"
          /\ ~HasInvalidDateToken(text[c])
          => /\ pc'[c] = "normalize_quotes"
             /\ text'[c] = re_sub(DatePattern, text[c], 1)]_vars

(***************************************************************************)
(* C6: a call fails exactly on the inputs that hold a date-shaped token    *)
(* that names no calendar day; a failed call returns no string.            *)
(***************************************************************************)
C6_FailsIffInvalidDate ==
    \A c \in Callers :
        /\ pc[c] = "raised" => HasInvalidDateToken(Folded(c)) /\ result[c].kind # "str"
        /\ HasInvalidDateToken(Folded(c)) =>
              pc[c] \notin {"normalize_quotes", "collapse_whitespace", "strip", "returned"}

(***************************************************************************)
(* C7: the output holds no comma between two digits.                       *)
(***************************************************************************)
C7_NoDigitCommaDigit ==
    \A c \in Callers : pc[c] = "returned" => ~DigitCommaDigit(result[c].value)

(***************************************************************************)
(* C8: the output holds no whitespace but single spaces, never two in a    *)
(* row, none first and none last; an input of whitespace only (the empty   *)
(* one too) gives the empty string.                                        *)
(***************************************************************************)
C8_WhitespaceInvariant ==
    \A c \in Callers :
        pc[c] = "returned" =>
            LET out == result[c].value
            IN  /\ Chars(out) \cap Whitespace \subseteq {" "}
                /\ ~Contains(<<" ", " ">>, out)
                /\ out # <<>> => out[1] # " " /\ out[Len(out)] # " "
                /\ Chars(input[c]) \subseteq Whitespace => out = <<>>

\* A call has returned a non-empty string for an input with a run of
\* several kinds of whitespace inside.
C8_Witness ==
    \E c \in Callers :
        /\ pc[c] = "returned"
        /\ Contains(<<" ", "<TAB>", "<LF>", " ">>, input[c])
        /\ Contains(<<"a", " ", "b">>, result[c].value)

(***************************************************************************)
(* C9 as claimed: every character of the output is printable ASCII.        *)
(***************************************************************************)
C9_OutputPrintable ==
    \A c \in Callers : pc[c] = "returned" => Chars(result[c].value) \subseteq AsciiPrintable

(***************************************************************************)
(* C9 as amended: every character of the output is ASCII (U+0000 to        *)
(* U+007F), and so is every character of the text after each pass from     *)
(* ASCII folding on.                                                       *)
(***************************************************************************)
C9_OutputAscii ==
    \A c \in Callers :
        /\ pc[c] \notin {"idle", "convert_to_ascii"} => Chars(text[c]) \subseteq Ascii
        /\ pc[c] = "returned" => Chars(result[c].value) \subseteq Ascii

\* A call has returned a non-empty string for an input with a character
\* outside ASCII.
C9_Witness ==
    \E c \in Callers :
        /\ pc[c] = "returned"
        /\ previous[c] = NoResult
        /\ ~(Chars(input[c]) \subseteq Ascii)
        /\ result[c].value # <<>>

(***************************************************************************)
(* C10: what a call gives back depends on its input alone: all the calls   *)
(* on one input, however interleaved with others, returning or failing,    *)
(* give back the same; and no call changes the abbreviation table.         *)
(***************************************************************************)
C10_Deterministic ==
    /\ abbreviations = _abbreviations
    /\ \A x \in CallInputs : Cardinality(outcomes[x]) <= 1
    /\ \A c \in Callers :
          pc[c] \in {"returned", "raised"} /\ outcomes[input[c]] # {} =>
              result[c] \in outcomes[input[c]]

\* A call that returned and a call that failed are on record, and a later
\* call on an input on record has come back.
C10_Witness ==
    /\ \E x \in CallInputs : Returned(<<"s", "t", "r", "e", "e", "t">>) \in outcomes[x]
    /\ \E x \in CallInputs : Raised \in outcomes[x]
    /\ \E c \in Callers : pc[c] \in {"returned", "raised"} /\ outcomes[input[c]] # {}
=============================================================================
